---- MODULE Spec2Model ----
(***************************************************************************)
(* Two-stage thread pipeline of 2023-04-10-threads-and-queues.py:          *)
(*   main -> todo_queue -> token workers -> token_queue -> result workers  *)
(*        -> results_queue -> main                                         *)
(* Every StoppingQueue is a queue.Queue (FIFO buffer + unfinished_tasks    *)
(* counter) with close() = put(sentinel) and an iterator that get()s,      *)
(* yields, and calls task_done() in a finally clause.                      *)
(***************************************************************************)
EXTENDS Integers, Sequences, FiniteSets, TLC

\* ---------------------------------------------------------------- bounds
\* N (line 8), N_TOKEN_THREADS (line 11) and N_RESULTS_THREADS (line 12) are
\* 1000, 10 and 5 in the source; the model ranges over every N >= 0 and every
\* pair of thread counts >= 1 with N + token threads + result threads <= MaxLoad.
MaxLoad == 6
\* Number of additional join() calls the second caller of RejoinSpec makes.
MaxRejoin == 2
\* Largest capacity of the bounded queues of BoundedSpec.
MaxCap == 3

\* ---------------------------------------------------------------- state
VARIABLES
    conf,        \* run configuration: [N, threads, closes], fixed by Init
    queue,       \* queue[q]: the FIFO buffer of StoppingQueue q
    unfinished,  \* unfinished[q]: Queue.unfinished_tasks (the pending-count)
    wpc,         \* wpc[w]: position of worker thread w
    witem,       \* witem[w]: the item worker w holds (loop variable `item`)
    mpc,         \* position of main(): <<statement, stage>>
    mi,          \* main's loop counter (range index / index into threads)
    results,     \* the list main() builds from results_queue
    hist,        \* history counters per queue (put, task_done, close, ...)
    rejoins      \* join() calls completed by the extra caller (RejoinSpec)

vars == <<conf, queue, unfinished, wpc, witem, mpc, mi, results, hist, rejoins>>

Queues == {"todo_queue", "token_queue", "results_queue"}
Pools == {1, 2}
AllWorkers == Pools \X (1..(MaxLoad - 1))

\* start_threads(N_TOKEN_THREADS, get_token, todo_queue, token_queue) and
\* start_threads(N_RESULTS_THREADS, get_result, token_queue, results_queue)
InQ(p) == IF p = 1 THEN "todo_queue" ELSE "token_queue"
OutQ(p) == IF p = 1 THEN "token_queue" ELSE "results_queue"

Workers(p) == {w \in AllWorkers : w[1] = p /\ w[2] <= conf.threads[p]}

\* ---------------------------------------------------------------- values
\* Payloads: the integer i, the string "token_<i>", the string "result_<i>";
\* the sentinel is the class attribute StoppingQueue.sentinel = object().
Index(i) == [tag |-> "int", idx |-> i]
Str(prefix, i) == [tag |-> prefix, idx |-> i]
\* (faulty variant: a string that is also a payload serves as the marker)
sentinelToken == Str("token", 0)
sentinel == [tag |-> "object", idx |-> 0]

\* `self.sentinel` of the queue instance q: the attribute is looked up on the
\* instance and found on the class, so every instance yields the same object.
SentinelOf(q) == sentinel

\* `item is self.sentinel`
\* (faulty variant: the test never succeeds)
IsSentinelNever(item) == FALSE
IsSentinel(item) == item = sentinel

\* get_token(i) = f"token_{i}"
get_token(item) == Str("token", item.idx)

\* get_result(token) = token.replace("token", "result")
\* (faulty variant: the replacement is not applied)
get_result_keep(item) == item
get_result(item) == IF item.tag = "token" THEN Str("result", item.idx) ELSE item

func(p, item) == IF p = 1 THEN get_token(item) ELSE get_result(item)

\* expected = [f"result_{i}" for i in range(N)]
expected == [j \in 1..conf.N |-> Str("result", j - 1)]

NoItem == [tag |-> "none", idx |-> 0]

\* ---------------------------------------------------------------- queue.Queue
\* Queue.put: append to the buffer, unfinished_tasks += 1.  The history
\* counts every put, and separately the puts of the sentinel (close()).
\* (faulty variant: a LIFO buffer)
EnqueueFront(buf, item) == <<item>> \o buf
Enqueue(buf, item) == Append(buf, item)

\* Queue(maxsize): put blocks while maxsize > 0 and the buffer holds maxsize
\* entries.  The program constructs StoppingQueue() with the default
\* maxsize = 0 (conf has no field maxsize): no put ever blocks.
\* (faulty variant: the capacity is ignored)
MaxSize == IF "maxsize" \in DOMAIN conf THEN conf.maxsize ELSE 0
CanPutAlways(q) == TRUE
CanPut(q) == MaxSize <= 0 \/ Len(queue[q]) < MaxSize

QueuePut(q, item) ==
    /\ CanPut(q)
    /\ queue' = [queue EXCEPT ![q] = Enqueue(@, item)]
    /\ unfinished' = [unfinished EXCEPT ![q] = @ + 1]
    /\ hist' = [hist EXCEPT !.nput[q] = @ + 1,
                            !.closed[q] = @ + (IF IsSentinel(item) THEN 1 ELSE 0)]

\* StoppingQueue.close
close(q) == QueuePut(q, sentinel)

\* Queue.get blocks while the buffer is empty, then removes its head.
CanGet(q) == queue[q] # <<>>
\* (faulty variant: the sentinel is left in the buffer for the next consumer)
RestPeek(buf) == IF IsSentinel(Head(buf)) THEN buf ELSE Tail(buf)
Rest(buf) == Tail(buf)

QueueGet(q) ==
    /\ CanGet(q)
    /\ queue' = [queue EXCEPT ![q] = Rest(@)]
    /\ hist' = [hist EXCEPT
                  !.popped[q] = @ + (IF IsSentinel(Head(queue[q])) THEN 1 ELSE 0)]

\* Queue.task_done: unfinished_tasks -= 1; ValueError when called more often
\* than there were items (the counter is then left alone and the caller dies).
TaskDoneOk(q) == unfinished[q] > 0

\* (faulty variant: the sentinel is returned outside try/finally and never
\* acknowledged)
QueueTaskDoneSkipSentinel(q, item) ==
    IF IsSentinel(item)
    THEN UNCHANGED <<unfinished, hist>>
    ELSE /\ unfinished' = [unfinished EXCEPT ![q] = IF TaskDoneOk(q) THEN @ - 1 ELSE @]
         /\ hist' = IF TaskDoneOk(q)
                    THEN [hist EXCEPT !.ndone[q] = @ + 1, !.acked[q] = @ \cup {item}]
                    ELSE hist
QueueTaskDone(q, item) ==
    /\ unfinished' = [unfinished EXCEPT ![q] = IF TaskDoneOk(q) THEN @ - 1 ELSE @]
    /\ hist' = IF TaskDoneOk(q)
               THEN [hist EXCEPT !.ndone[q] = @ + 1,
                                 !.acked[q] = IF IsSentinel(item) THEN @ ELSE @ \cup {item}]
               ELSE hist

\* Queue.join returns once unfinished_tasks is 0; it changes nothing.
\* (faulty variant: join() does not wait)
JoinReadyAlways(q) == TRUE
JoinReady(q) == unfinished[q] = 0

\* (faulty variant: join() acknowledges once more)
QueueJoinReack(q) ==
    /\ JoinReady(q)
    /\ hist' = [hist EXCEPT !.ndone[q] = @ + 1]
    /\ UNCHANGED <<queue, unfinished>>
QueueJoin(q) ==
    /\ JoinReady(q)
    /\ UNCHANGED <<queue, unfinished, hist>>

\* ---------------------------------------------------------------- workers
\* Positions of a StoppingWorker thread:
\*   "new"        constructed, not started
\*   "get"        in self.get() of the iterator (blocked while the queue is empty)
\*   "body"       item yielded: result = self.func(item); self.out_queue.put(result)
\*   "task_done"  generator resumed, in the finally clause
\*   "stop"       popped the sentinel: return, in the finally clause
\*   "exit"       iterator exhausted, run() returning
\*   "done"       thread terminated
\*   "raised"     thread died of an exception
\* The order of one loop round: the body runs at the yield, task_done after it.
\* (faulty variant: task_done before the body)
WorkerFlowAckFirst(pc) ==
    CASE pc = "get" -> "task_done" [] pc = "task_done" -> "body" [] pc = "body" -> "get"
WorkerFlow(pc) ==
    CASE pc = "get" -> "body" [] pc = "body" -> "task_done" [] pc = "task_done" -> "get"

Alive(w) == wpc[w] \notin {"new", "done", "raised"}

\* item = self.get(); if item is self.sentinel: return  /  yield item
WorkerGet(w) ==
    /\ wpc[w] = "get"
    /\ QueueGet(InQ(w[1]))
    /\ witem' = [witem EXCEPT ![w] = Head(queue[InQ(w[1])])]
    /\ wpc' = [wpc EXCEPT ![w] = IF IsSentinel(Head(queue[InQ(w[1])]))
                                 THEN "stop" ELSE WorkerFlow("get")]
    /\ UNCHANGED <<conf, unfinished, mpc, mi, results, rejoins>>

\* result = self.func(item); self.out_queue.put(result)
WorkerBody(w) ==
    /\ wpc[w] = "body"
    /\ QueuePut(OutQ(w[1]), func(w[1], witem[w]))
    /\ wpc' = [wpc EXCEPT ![w] = WorkerFlow("body")]
    /\ UNCHANGED <<conf, witem, mpc, mi, results, rejoins>>

\* finally: self.task_done(), then the next round of `while True`
WorkerTaskDone(w) ==
    /\ wpc[w] = "task_done"
    /\ QueueTaskDone(InQ(w[1]), witem[w])
    /\ wpc' = [wpc EXCEPT ![w] = IF TaskDoneOk(InQ(w[1]))
                                 THEN WorkerFlow("task_done") ELSE "raised"]
    /\ witem' = [witem EXCEPT ![w] = IF WorkerFlow("task_done") = "get" THEN NoItem ELSE @]
    /\ UNCHANGED <<conf, queue, mpc, mi, results, rejoins>>

\* return ... finally: self.task_done(), for the sentinel
WorkerStop(w) ==
    /\ wpc[w] = "stop"
    /\ QueueTaskDone(InQ(w[1]), witem[w])
    /\ wpc' = [wpc EXCEPT ![w] = IF TaskDoneOk(InQ(w[1])) THEN "exit" ELSE "raised"]
    /\ witem' = [witem EXCEPT ![w] = NoItem]
    /\ UNCHANGED <<conf, queue, mpc, mi, results, rejoins>>

\* the for loop of run() ends and the thread terminates
WorkerExit(w) ==
    /\ wpc[w] = "exit"
    /\ wpc' = [wpc EXCEPT ![w] = "done"]
    /\ UNCHANGED <<conf, queue, unfinished, witem, mpc, mi, results, hist, rejoins>>

Worker(w) ==
    \/ WorkerGet(w)
    \/ WorkerBody(w)
    \/ WorkerTaskDone(w)
    \/ WorkerStop(w)
    \/ WorkerExit(w)

\* ---------------------------------------------------------------- main
\* The statements of main() in order; <<"tjoin", p>> etc. are the loops and
\* the join of stop_threads(queue, threads) for pool p.
\* (faulty variants: stop_threads(token_queue, result_threads) left out;
\* the two stop_threads calls swapped)
MainFlowSkipStage2(pc) ==
    CASE pc = <<"start", 1>> -> <<"start", 2>>
      [] pc = <<"start", 2>> -> <<"put", 0>>
      [] pc = <<"put", 0>>   -> <<"close", 1>>
      [] pc = <<"close", 1>> -> <<"qjoin", 1>>
      [] pc = <<"qjoin", 1>> -> <<"tjoin", 1>>
      [] pc = <<"tjoin", 1>> -> <<"rclose", 3>>
      [] pc = <<"close", 2>> -> <<"qjoin", 2>>
      [] pc = <<"qjoin", 2>> -> <<"tjoin", 2>>
      [] pc = <<"tjoin", 2>> -> <<"rclose", 3>>
      [] pc = <<"rclose", 3>> -> <<"iter", 3>>
      [] pc = <<"iterstop", 3>> -> <<"done", 0>>
MainFlowSwapped(pc) ==
    CASE pc = <<"start", 1>> -> <<"start", 2>>
      [] pc = <<"start", 2>> -> <<"put", 0>>
      [] pc = <<"put", 0>>   -> <<"close", 2>>
      [] pc = <<"close", 2>> -> <<"qjoin", 2>>
      [] pc = <<"qjoin", 2>> -> <<"tjoin", 2>>
      [] pc = <<"tjoin", 2>> -> <<"close", 1>>
      [] pc = <<"close", 1>> -> <<"qjoin", 1>>
      [] pc = <<"qjoin", 1>> -> <<"tjoin", 1>>
      [] pc = <<"tjoin", 1>> -> <<"rclose", 3>>
      [] pc = <<"rclose", 3>> -> <<"iter", 3>>
      [] pc = <<"iterstop", 3>> -> <<"done", 0>>
MainFlow(pc) ==
    CASE pc = <<"start", 1>> -> <<"start", 2>>
      [] pc = <<"start", 2>> -> <<"put", 0>>
      [] pc = <<"put", 0>>   -> <<"close", 1>>
      [] pc = <<"close", 1>> -> <<"qjoin", 1>>
      [] pc = <<"qjoin", 1>> -> <<"tjoin", 1>>
      [] pc = <<"tjoin", 1>> -> <<"close", 2>>
      [] pc = <<"close", 2>> -> <<"qjoin", 2>>
      [] pc = <<"qjoin", 2>> -> <<"tjoin", 2>>
      [] pc = <<"tjoin", 2>> -> <<"rclose", 3>>
      [] pc = <<"rclose", 3>> -> <<"iter", 3>>
      [] pc = <<"iterstop", 3>> -> <<"done", 0>>

\* Number of rounds of the loop at pc: range(count) of start_threads,
\* range(N) of main, `for _ in threads` and `for thread in threads` of
\* stop_threads (conf.closes[p] is len(threads) in the program).
LoopLen(pc) ==
    CASE pc[1] = "start" -> conf.threads[pc[2]]
      [] pc[1] = "put"   -> conf.N
      [] pc[1] = "close" -> conf.closes[pc[2]]
      [] pc[1] = "tjoin" -> conf.threads[pc[2]]

\* a loop of main() or of a function it calls is exhausted
MainLoopEnd ==
    /\ mpc[1] \in {"start", "put", "close", "tjoin"}
    /\ mi = LoopLen(mpc)
    /\ mpc' = MainFlow(mpc)
    /\ mi' = 0
    /\ UNCHANGED <<conf, queue, unfinished, wpc, witem, results, hist, rejoins>>

\* start_threads: thread.start()
MainStart(p) ==
    /\ mpc = <<"start", p>>
    /\ mi < LoopLen(mpc)
    /\ wpc' = [wpc EXCEPT ![<<p, mi + 1>>] = "get"]
    /\ mi' = mi + 1
    /\ UNCHANGED <<conf, queue, unfinished, witem, mpc, results, hist, rejoins>>

\* for i in range(N): todo_queue.put(i)
MainPut ==
    /\ mpc = <<"put", 0>>
    /\ mi < LoopLen(mpc)
    /\ QueuePut("todo_queue", Index(mi))
    /\ mi' = mi + 1
    /\ UNCHANGED <<conf, wpc, witem, mpc, results, rejoins>>

\* stop_threads: for _ in threads: queue.close()
MainClose(p) ==
    /\ mpc = <<"close", p>>
    /\ mi < LoopLen(mpc)
    /\ close(InQ(p))
    /\ mi' = mi + 1
    /\ UNCHANGED <<conf, wpc, witem, mpc, results, rejoins>>

\* stop_threads: queue.join()
MainQueueJoin(p) ==
    /\ mpc = <<"qjoin", p>>
    /\ QueueJoin(InQ(p))
    /\ mpc' = MainFlow(mpc)
    /\ UNCHANGED <<conf, wpc, witem, mi, results, rejoins>>

\* stop_threads: for thread in threads: thread.join()
\* (faulty variant: thread.join() does not wait)
ThreadJoinNoWait(w) == TRUE
ThreadJoinReady(w) == ~Alive(w)

MainThreadJoin(p) ==
    /\ mpc = <<"tjoin", p>>
    /\ mi < LoopLen(mpc)
    /\ ThreadJoinReady(<<p, mi + 1>>)
    /\ mi' = mi + 1
    /\ UNCHANGED <<conf, queue, unfinished, wpc, witem, mpc, results, hist, rejoins>>

\* results_queue.close()
MainResultsClose ==
    /\ mpc = <<"rclose", 3>>
    /\ close("results_queue")
    /\ mpc' = MainFlow(mpc)
    /\ UNCHANGED <<conf, wpc, witem, mi, results, rejoins>>

\* results = list(results_queue): item = self.get(); the yielded item is appended
MainIterGet ==
    /\ mpc = <<"iter", 3>>
    /\ QueueGet("results_queue")
    /\ IF IsSentinel(Head(queue["results_queue"]))
       THEN /\ mpc' = <<"iterstop", 3>>
            /\ results' = results
       ELSE /\ mpc' = <<"iterack", 3>>
            /\ results' = Append(results, Head(queue["results_queue"]))
    /\ UNCHANGED <<conf, unfinished, wpc, witem, mi, rejoins>>

\* list(results_queue): finally: self.task_done() after a yielded item
MainIterTaskDone ==
    /\ mpc = <<"iterack", 3>>
    /\ QueueTaskDone("results_queue", results[Len(results)])
    /\ mpc' = IF TaskDoneOk("results_queue") THEN <<"iter", 3>> ELSE <<"raised", 0>>
    /\ UNCHANGED <<conf, queue, wpc, witem, mi, results, rejoins>>

\* list(results_queue): return ... finally: self.task_done() for the sentinel
MainIterStop ==
    /\ mpc = <<"iterstop", 3>>
    /\ QueueTaskDone("results_queue", sentinel)
    /\ mpc' = IF TaskDoneOk("results_queue") THEN MainFlow(mpc) ELSE <<"raised", 0>>
    /\ UNCHANGED <<conf, queue, wpc, witem, mi, results, rejoins>>

Main ==
    \/ MainLoopEnd
    \/ \E p \in Pools : MainStart(p)
    \/ MainPut
    \/ \E p \in Pools : MainClose(p)
    \/ \E p \in Pools : MainQueueJoin(p)
    \/ \E p \in Pools : MainThreadJoin(p)
    \/ MainResultsClose
    \/ MainIterGet
    \/ MainIterTaskDone
    \/ MainIterStop

\* ---------------------------------------------------------------- state space
Items ==
    {sentinel, NoItem} \cup
    {[tag |-> t, idx |-> i] : t \in {"int", "token", "result"}, i \in 0..MaxLoad}
WorkerPcs == {"new", "get", "body", "task_done", "stop", "exit", "done", "raised"}

TypeOK ==
    /\ conf.N \in 0..MaxLoad
    /\ conf.threads \in [Pools -> 1..MaxLoad]
    /\ conf.closes \in [Pools -> 0..(MaxLoad + 1)]
    /\ \A q \in Queues : queue[q] \in Seq(Items) /\ unfinished[q] \in Nat
    /\ wpc \in [AllWorkers -> WorkerPcs]
    /\ witem \in [AllWorkers -> Items]
    /\ mi \in 0..MaxLoad
    /\ results \in Seq(Items)
    /\ \A q \in Queues :
          /\ hist.nput[q] \in Nat /\ hist.ndone[q] \in Nat
          /\ hist.closed[q] \in Nat /\ hist.popped[q] \in Nat
          /\ hist.acked[q] \subseteq Items
    /\ rejoins \in 0..MaxRejoin

\* ---------------------------------------------------------------- specification
Configs ==
    {c \in [N : 0..MaxLoad, threads : [Pools -> 1..MaxLoad]] :
        c.N + c.threads[1] + c.threads[2] <= MaxLoad}

InitState(c) ==
    /\ conf = c
    /\ queue = [q \in Queues |-> <<>>]
    /\ unfinished = [q \in Queues |-> 0]
    /\ wpc = [w \in AllWorkers |-> "new"]
    /\ witem = [w \in AllWorkers |-> NoItem]
    /\ mpc = <<"start", 1>>
    /\ mi = 0
    /\ results = <<>>
    /\ hist = [nput   |-> [q \in Queues |-> 0],
               ndone  |-> [q \in Queues |-> 0],
               closed |-> [q \in Queues |-> 0],
               popped |-> [q \in Queues |-> 0],
               acked  |-> [q \in Queues |-> {}]]
    /\ rejoins = 0

\* main() as written: every pool's queue is closed len(threads) times.
Init ==
    \E c \in Configs : InitState([N |-> c.N, threads |-> c.threads, closes |-> c.threads])

Next == Main \/ \E w \in AllWorkers : Worker(w)

Spec == Init /\ [][Next]_vars

\* Threads are scheduled fairly: while some thread can take a step (is not
\* blocked in get() or join()), a step is eventually taken.  Every step
\* advances a thread that never goes back, so this is all the fairness the
\* liveness claims need; fairness per thread implies it.
Fairness == WF_vars(Next)

\* The liveness claims are checked on the configurations of one unit of load
\* less than Configs.
SmallConfigs == {c \in Configs : c.N + c.threads[1] + c.threads[2] < MaxLoad}

LiveInit ==
    \E c \in SmallConfigs : InitState([N |-> c.N, threads |-> c.threads, closes |-> c.threads])

FairSpec == LiveInit /\ [][Next]_vars /\ Fairness

\* ---------------------------------------------------------------- harnesses
\* Protocol misuse: stop_threads closes the queue of one pool (bad) one time
\* too few or one time too many; bad = 0 is main() as written.
MisuseInit ==
    \E c \in SmallConfigs, bad \in {0} \cup Pools, d \in {-1, 1} :
        InitState([N |-> c.N, threads |-> c.threads,
                   closes |-> [p \in Pools |-> c.threads[p] + (IF p = bad THEN d ELSE 0)]])

MisuseSpec == MisuseInit /\ [][Next]_vars

FairMisuseSpec == MisuseSpec /\ Fairness

\* A second caller of join(): up to MaxRejoin further calls of q.join(), at
\* any time, beside main(); each returns once q.unfinished_tasks is 0.
ExtraJoin(q) ==
    /\ rejoins < MaxRejoin
    /\ QueueJoin(q)
    /\ rejoins' = rejoins + 1
    /\ UNCHANGED <<conf, wpc, witem, mpc, mi, results>>

RejoinNext == Next \/ \E q \in Queues : ExtraJoin(q)

RejoinSpec == LiveInit /\ [][RejoinNext]_vars

\* A stage function that raises: func(item) raises an exception for the
\* items in conf.failing (none in main() as written, where conf has no such
\* field).
Failing == IF "failing" \in DOMAIN conf THEN conf.failing ELSE {}

\* result = self.func(item) raises in run(): nothing is put, the exception
\* leaves the for loop and run(), and the thread dies.  The generator of
\* __iter__ is left suspended at its yield; when it is finalised (at once
\* where objects are freed by reference count, later or never elsewhere) its
\* finally clause calls task_done() for the item, otherwise the item stays
\* unacknowledged.
\* (faulty variant: the exception is caught per item and the loop goes on)
WorkerRaiseContinue(w) ==
    /\ wpc[w] = "body"
    /\ witem[w] \in Failing
    /\ wpc' = [wpc EXCEPT ![w] = WorkerFlow("body")]
    /\ UNCHANGED <<conf, queue, unfinished, witem, mpc, mi, results, hist, rejoins>>
WorkerRaise(w) ==
    /\ wpc[w] = "body"
    /\ witem[w] \in Failing
    /\ wpc' = [wpc EXCEPT ![w] = "raised"]
    /\ \/ QueueTaskDone(InQ(w[1]), witem[w])
       \/ UNCHANGED <<unfinished, hist>>
    /\ UNCHANGED <<conf, queue, witem, mpc, mi, results, rejoins>>

\* a worker step of the program with the failing function
FailWorker(w) ==
    \/ (wpc[w] = "body" => witem[w] \notin Failing) /\ Worker(w)
    \/ WorkerRaise(w)

FailNext == Main \/ \E w \in AllWorkers : FailWorker(w)

\* the function of one stage raises on one item, or on none
FailInit ==
    \E c \in SmallConfigs :
        \E f \in {{}} \cup {{Index(i)} : i \in 0..(c.N - 1)}
                      \cup {{get_token(Index(i))} : i \in 0..(c.N - 1)} :
            InitState([N |-> c.N, threads |-> c.threads, closes |-> c.threads,
                       failing |-> f])

FairFailSpec == FailInit /\ [][FailNext]_vars /\ WF_vars(FailNext)

\* Bounded queues: every StoppingQueue is constructed with capacity
\* maxsize = C, 1 <= C <= MaxCap; main() and the workers are unchanged.
BoundedInit ==
    \E c \in SmallConfigs, C \in 1..MaxCap :
        InitState([N |-> c.N, threads |-> c.threads, closes |-> c.threads,
                   maxsize |-> C])

FairBoundedSpec == BoundedInit /\ [][Next]_vars /\ Fairness

\* Schedulers.  The operating system may run the threads in any order; a
\* scheduler picks some of these orders by holding a worker back before its
\* out_queue.put.  Every step of SchedNext is a step of Next and no action
\* reads conf.sched, so every run of FairSchedSpec is a run of main().
\*   "inorder": a worker puts only when no worker of its pool holds an item
\*              of a smaller index;
\*   "reorder": a worker puts only once its input queue is closed, no idle
\*              worker of its pool could get an entry first, and no worker
\*              of its pool holds an item of a larger index.
Sched == IF "sched" \in DOMAIN conf THEN conf.sched ELSE "any"

MayPut(w) ==
    LET busy == {v \in Workers(w[1]) : wpc[v] = "body"}
    IN  CASE Sched = "inorder" ->
                \A v \in busy : witem[v].idx >= witem[w].idx
          [] Sched = "reorder" ->
                /\ hist.closed[InQ(w[1])] > 0
                /\ \A v \in Workers(w[1]) : wpc[v] = "get" => ~CanGet(InQ(w[1]))
                /\ \A v \in busy : witem[v].idx <= witem[w].idx
          [] OTHER -> TRUE

SchedWorker(w) == (wpc[w] = "body" => MayPut(w)) /\ Worker(w)

SchedNext == Main \/ \E w \in AllWorkers : SchedWorker(w)

SchedInit ==
    \E c \in SmallConfigs, s \in {"inorder", "reorder"} :
        InitState([N |-> c.N, threads |-> c.threads, closes |-> c.threads,
                   sched |-> s])

FairSchedSpec == SchedInit /\ [][SchedNext]_vars /\ WF_vars(SchedNext)

\* ---------------------------------------------------------------- claim helpers
Done == mpc = <<"done", 0>>

\* the statements of main() in program order, to say "main is past pc"
MainOrder ==
    << <<"start", 1>>, <<"start", 2>>, <<"put", 0>>,
       <<"close", 1>>, <<"qjoin", 1>>, <<"tjoin", 1>>,
       <<"close", 2>>, <<"qjoin", 2>>, <<"tjoin", 2>>,
       <<"rclose", 3>>, <<"iter", 3>>, <<"iterack", 3>>, <<"iterstop", 3>>,
       <<"done", 0>> >>
Rank(pc) == CHOOSE k \in 1..Len(MainOrder) : MainOrder[k] = pc
Past(pc) == mpc \in {MainOrder[k] : k \in 1..Len(MainOrder)} /\ Rank(mpc) > Rank(pc)

\* stop_threads(queue, threads) for pool p has returned
StopReturned(p) == Past(<<"tjoin", p>>)

Count(S) == Cardinality(S)
Payloads(q) == hist.nput[q] - hist.closed[q]
Markers(buf) == Count({k \in 1..Len(buf) : IsSentinel(buf[k])})

\* every entry ever put on q (markers included) was popped and acknowledged
Drained(q) == queue[q] = <<>> /\ hist.ndone[q] = hist.nput[q]

\* ---------------------------------------------------------------- C1
\* C1: whenever main() has finished list(results_queue), the collected
\* results hold result_i exactly once for each i in 0..N-1 and nothing else.
Completeness ==
    Done =>
        /\ Len(results) = conf.N
        /\ \A i \in 0..(conf.N - 1) :
              Count({k \in 1..Len(results) : results[k] = Str("result", i)}) = 1

\* a finished run of two items through two workers per stage
CompletenessWitness ==
    Done /\ conf.N = 2 /\ conf.threads = <<2, 2>> /\ Len(results) = 2

\* ---------------------------------------------------------------- C2
\* a thread that cannot take a step: blocked in get(), queue.join() or
\* Thread.join()
MainBlocked ==
    \/ mpc[1] = "qjoin" /\ ~JoinReady(InQ(mpc[2]))
    \/ mpc[1] = "tjoin" /\ mi < LoopLen(mpc) /\ ~ThreadJoinReady(<<mpc[2], mi + 1>>)
    \/ mpc[1] = "iter" /\ ~CanGet("results_queue")
WorkerBlocked(w) == wpc[w] = "get" /\ ~CanGet(InQ(w[1]))
Deadlocked ==
    /\ MainBlocked
    /\ \A w \in AllWorkers : Alive(w) => WorkerBlocked(w)

\* C2: with fair scheduling main() always terminates (both stop_threads
\* calls return and the iteration over results_queue ends), and in no
\* reachable state are the coordinator and all live workers blocked.
PipelineTerminates == []~Deadlocked /\ <>Done

\* main() has finished and every worker thread of both pools has terminated
PipelineTerminatesWitness ==
    /\ Done
    /\ conf.N >= 1
    /\ \A p \in Pools : \A w \in Workers(p) : wpc[w] = "done"

\* ---------------------------------------------------------------- C3
\* C3: once stop_threads has closed the input queue of a pool once per
\* worker, it eventually returns, and when it has returned no worker thread
\* of the pool is alive.
\* (main is in queue.join() or in the thread.join() loop of stop_threads
\* exactly while mpc is <<"qjoin", p>> or <<"tjoin", p>>.)
InStopThreadsClosed == mpc[1] \in {"qjoin", "tjoin"}

StopThreadsTerminates ==
    /\ [](\A p \in Pools : StopReturned(p) => \A w \in Workers(p) : ~Alive(w))
    /\ InStopThreadsClosed ~> ~InStopThreadsClosed

\* stop_threads of the result pool has just returned: its three workers had
\* one marker each
StopThreadsTerminatesWitness ==
    /\ mpc = <<"rclose", 3>>
    /\ conf.threads[2] = 3
    /\ hist.closed["token_queue"] = 3
    /\ \A w \in Workers(2) : wpc[w] = "done"

\* ---------------------------------------------------------------- C4
\* a worker has left its loop once it popped the sentinel: it is in the
\* finally clause of the return, returning from run(), or terminated
LeftLoop(w) == wpc[w] \in {"stop", "exit", "done"}
Terminated(w) == wpc[w] = "done"

\* each marker put by close() is still in the queue or was popped once
MarkersPoppedOnce(p) ==
    /\ hist.popped[InQ(p)] + Markers(queue[InQ(p)]) = hist.closed[InQ(p)]
    /\ hist.popped[InQ(p)] <= hist.closed[InQ(p)]

\* C4 as stated: ... and the number of terminated workers of a pool equals
\* the number of markers popped from its input queue.
StopMarkerExclusivityAsStated ==
    \A p \in Pools :
        /\ MarkersPoppedOnce(p)
        /\ Count({w \in Workers(p) : LeftLoop(w)}) = hist.popped[InQ(p)]
        /\ Count({w \in Workers(p) : Terminated(w)}) = hist.popped[InQ(p)]

\* C4 (amended): each marker put by close() is popped by at most one worker;
\* the workers that have left their loop are as many as the markers popped
\* from the input queue, the terminated workers are at most as many, and
\* neither number exceeds the number of close() calls.
StopMarkerExclusivity ==
    \A p \in Pools :
        /\ MarkersPoppedOnce(p)
        /\ Count({w \in Workers(p) : LeftLoop(w)}) = hist.popped[InQ(p)]
        /\ Count({w \in Workers(p) : Terminated(w)}) <= hist.popped[InQ(p)]

\* one token worker has terminated on its marker, the other marker is still
\* in the queue
StopMarkerExclusivityWitness ==
    /\ conf.threads[1] = 2
    /\ hist.popped["todo_queue"] = 1
    /\ Markers(queue["todo_queue"]) = 1
    /\ Count({w \in Workers(1) : Terminated(w)}) = 1

\* ---------------------------------------------------------------- C5
\* the pool whose queue stop_threads closes one time too few
UnderClosed(p) ==
    /\ conf.closes[p] = conf.threads[p] - 1
    /\ \A o \in Pools \ {p} : conf.closes[o] = conf.threads[o]

\* K-1 workers of p have terminated, the last one is blocked in get() on the
\* empty queue, and main is in thread.join()
OneWorkerStuck(p) ==
    /\ Count({w \in Workers(p) : wpc[w] = "done"}) = conf.threads[p] - 1
    /\ Count({w \in Workers(p) : WorkerBlocked(w)}) = 1
    /\ queue[InQ(p)] = <<>>
    /\ mpc = <<"tjoin", p>>

\* C5: when the queue of a pool of K workers is closed only K-1 times, then
\* eventually and for ever exactly K-1 workers have terminated and exactly
\* one is blocked in get(); stop_threads never returns from thread.join().
\* (conf never changes, so "if UnderClosed(p) then eventually always ..." is
\* stated inside the temporal operators.)
UnderClosingBlocks ==
    /\ [](\A p \in Pools : UnderClosed(p) => ~StopReturned(p))
    /\ <>[](\A p \in Pools : UnderClosed(p) => OneWorkerStuck(p))

\* two of three token workers have terminated on the two markers, the third
\* is blocked, and main waits for it
UnderClosingBlocksWitness ==
    /\ UnderClosed(1)
    /\ conf.threads[1] = 3
    /\ hist.popped["todo_queue"] = 2
    /\ OneWorkerStuck(1)

\* ---------------------------------------------------------------- C6
\* C6: with one worker in each stage, the collected results are the
\* sequence result_0, ..., result_{N-1} in that order.
SingleWorkerOrder ==
    (Done /\ conf.threads = <<1, 1>>) => results = expected

\* four items went through one worker per stage
SingleWorkerOrderWitness ==
    Done /\ conf.threads = <<1, 1>> /\ conf.N = 4 /\ Len(results) = 4

\* ---------------------------------------------------------------- C7
\* C7: once a queue is fully drained, a further join() returns at once
\* (a drained queue has unfinished_tasks = 0), and every further join() call
\* leaves the queue contents, the pending-counts and the acknowledged items
\* as they were.
IdempotentDraining ==
    [][/\ \A q \in Queues : Drained(q) => JoinReady(q)
       /\ rejoins' # rejoins =>
             /\ queue' = queue
             /\ unfinished' = unfinished
             /\ hist' = hist
             /\ \A q \in Queues : Drained(q) => Drained(q)' /\ JoinReady(q)']_vars

\* two further join() calls have returned while todo_queue is closed and
\* drained and the result pool is still at work
IdempotentDrainingWitness ==
    /\ rejoins >= 2
    /\ hist.closed["todo_queue"] > 0
    /\ Drained("todo_queue")
    /\ \E w \in Workers(2) : wpc[w] = "body"

\* ---------------------------------------------------------------- C8
\* in buffer buf every payload item precedes every stop marker
PayloadBeforeMarkers(buf) ==
    \A j, k \in 1..Len(buf) : (j < k /\ IsSentinel(buf[j])) => IsSentinel(buf[k])

\* C8: no payload item is put on a queue after the first stop marker was put
\* on it; in each queue every payload item precedes every stop marker.
NoPushAfterClose ==
    [][\A q \in Queues :
          /\ hist.closed[q] > 0 => Payloads(q)' = Payloads(q)
          /\ PayloadBeforeMarkers(queue[q]')]_vars

\* token_queue holds a token followed by the two markers of the result pool
NoPushAfterCloseWitness ==
    /\ Len(queue["token_queue"]) = 3
    /\ ~IsSentinel(queue["token_queue"][1])
    /\ IsSentinel(queue["token_queue"][2])
    /\ IsSentinel(queue["token_queue"][3])

\* ---------------------------------------------------------------- C9
\* state of the pool p: 0 NotStarted, 1 Running, 2 Draining, 3 Stopped
PoolState(p) ==
    IF \A w \in Workers(p) : wpc[w] = "new" THEN 0
    ELSE IF \A w \in Workers(p) : ~Alive(w) THEN 3
    ELSE IF hist.closed[InQ(p)] > 0 THEN 2
    ELSE 1

PoolStopped(p) == Drained(InQ(p)) /\ \A w \in Workers(p) : Terminated(w)

ShutdownOrderState ==
    /\ \A p \in Pools : hist.closed[InQ(p)] <= conf.threads[p]
    /\ \A p \in Pools : Past(<<"close", p>>) => hist.closed[InQ(p)] = conf.threads[p]
    /\ hist.closed["token_queue"] > 0 => PoolStopped(1)
    /\ hist.closed["results_queue"] > 0 => PoolStopped(2)
    /\ hist.closed["results_queue"] <= 1
    /\ Past(<<"rclose", 3>>) => hist.closed["results_queue"] = 1

\* C9: main puts exactly one marker per token worker on todo_queue; the
\* first marker on token_queue is put only after todo_queue is drained and
\* every token worker has terminated, and exactly one per result worker is
\* put there; the single marker on results_queue is put only after
\* token_queue is drained and every result worker has terminated.  The state
\* of each pool only moves NotStarted -> Running -> Draining -> Stopped.
ShutdownOrder ==
    [][/\ ShutdownOrderState'
       /\ \A p \in Pools :
             PoolState(p)' = PoolState(p) \/ PoolState(p)' = PoolState(p) + 1]_vars

\* the marker of results_queue is in place, both pools are stopped
ShutdownOrderWitness ==
    /\ mpc = <<"iter", 3>>
    /\ hist.closed = [q \in Queues |-> IF q = "results_queue" THEN 1 ELSE 2]
    /\ \A p \in Pools : PoolState(p) = 3
    /\ Len(queue["results_queue"]) = 3

\* ---------------------------------------------------------------- C10
\* C10: a worker calls task_done for an input item only after the put of
\* its result has completed: the acknowledged payload items of a stage's
\* input queue are never more than the results put on its output queue; and
\* once queue.join() of stop_threads has returned no worker of the pool is
\* about to put, and the output queue has received one result per input item.
AckFollowsPush ==
    \A p \in Pools :
        /\ Count(hist.acked[InQ(p)]) <= Payloads(OutQ(p))
        /\ Past(<<"qjoin", p>>) =>
              /\ \A w \in Workers(p) : wpc[w] # "body"
              /\ Payloads(OutQ(p)) = Payloads(InQ(p))

\* a token worker has put token_0 and not yet acknowledged item 0, while the
\* other one has acknowledged item 1
AckFollowsPushWitness ==
    /\ Payloads("token_queue") = 2
    /\ hist.acked["todo_queue"] = {Index(1)}
    /\ \E w \in Workers(1) : wpc[w] = "task_done" /\ witem[w] = Index(0)

\* ---------------------------------------------------------------- C11
\* C11: when stop_threads(queue, threads) has returned, the input queue of
\* the pool holds neither item nor marker, its pending-count is 0, every
\* entry put on it was popped and acknowledged, every worker of the pool has
\* terminated, and the output queue has received one result per input item.
StopThreadsPostcondition ==
    \A p \in Pools :
        StopReturned(p) =>
            /\ queue[InQ(p)] = <<>>
            /\ unfinished[InQ(p)] = 0
            /\ hist.ndone[InQ(p)] = hist.nput[InQ(p)]
            /\ hist.popped[InQ(p)] = hist.closed[InQ(p)]
            /\ Count(hist.acked[InQ(p)]) = Payloads(InQ(p))
            /\ \A w \in Workers(p) : Terminated(w)
            /\ Payloads(OutQ(p)) = Payloads(InQ(p))

\* stop_threads(todo_queue, token_threads) has just returned for two token
\* workers and two items; no marker is on token_queue yet
StopThreadsPostconditionWitness ==
    /\ mpc = <<"close", 2>>
    /\ mi = 0
    /\ conf.threads[1] = 2
    /\ conf.N = 2
    /\ hist.closed["token_queue"] = 0

\* ---------------------------------------------------------------- C12
\* entries of q that were popped: every put that is no longer in the buffer
Popped(q) == hist.nput[q] - Len(queue[q])

\* consumers of q between their get() and the task_done() that follows it
Holders(q) ==
    {w \in AllWorkers : InQ(w[1]) = q /\ wpc[w] \in {"body", "task_done", "stop"}}
MainHolds(q) ==
    IF q = "results_queue" /\ mpc[1] \in {"iterack", "iterstop"} THEN 1 ELSE 0

\* C12: the pending-count of every queue is the number of puts (close
\* markers included) minus the number of task_done calls and is never
\* negative; task_done is never called more often than entries were popped
\* (no consumer dies of ValueError); every popped entry is acknowledged
\* exactly once by the consumer that popped it: the popped entries not yet
\* acknowledged are those the consumers hold between get() and task_done().
PendingCountAccounting ==
    /\ \A q \in Queues :
          /\ unfinished[q] = hist.nput[q] - hist.ndone[q]
          /\ unfinished[q] >= 0
          /\ hist.ndone[q] <= Popped(q)
          /\ Popped(q) - hist.ndone[q] = Count(Holders(q)) + MainHolds(q)
    /\ \A w \in AllWorkers : wpc[w] # "raised"
    /\ mpc[1] # "raised"

\* a token worker is about to acknowledge the marker it popped while another
\* one still works on an item and a third entry waits in todo_queue
PendingCountAccountingWitness ==
    /\ unfinished["todo_queue"] = 3
    /\ Len(queue["todo_queue"]) = 1
    /\ hist.ndone["todo_queue"] = 1
    /\ \E w \in Workers(1) : wpc[w] = "stop"
    /\ \E w \in Workers(1) : wpc[w] = "body"

\* ---------------------------------------------------------------- C13
\* main has left the iteration of results_queue
MainLeftLoop == mpc[1] \in {"iterstop", "done"}

\* C13: the iteration of a StoppingQueue hands only payload items to the
\* loop body and to list(), never the stop marker; the consumer that pops a
\* marker ends its iteration with that very get() and removes only the
\* marker, so the entries behind it stay in the queue; a consumer that has
\* popped a marker never gets again.
IterationStopsAtMarker ==
    [][/\ \A w \in AllWorkers :
             /\ wpc'[w] \in {"body", "task_done"} => witem'[w] # sentinel
             /\ (wpc[w] = "get" /\ wpc'[w] # "get") =>
                    /\ queue[InQ(w[1])] # <<>>
                    /\ witem'[w] = Head(queue[InQ(w[1])])
                    /\ queue'[InQ(w[1])] = Tail(queue[InQ(w[1])])
                    /\ wpc'[w] = (IF witem'[w] = sentinel THEN "stop" ELSE "body")
             /\ LeftLoop(w) => (wpc'[w] = wpc[w] \/ wpc'[w] \in {"exit", "done"})
             /\ (LeftLoop(w) /\ wpc'[w] # wpc[w]) => queue' = queue
       /\ \A k \in 1..Len(results') : results'[k] # sentinel
       /\ (mpc = <<"iter", 3>> /\ mpc' # mpc) =>
              /\ queue'["results_queue"] = Tail(queue["results_queue"])
              /\ MainLeftLoop' <=> Head(queue["results_queue"]) = sentinel
              /\ ~MainLeftLoop' => results' = Append(results, Head(queue["results_queue"]))
       /\ MainLeftLoop => (MainLeftLoop' /\ queue' = queue /\ results' = results)]_vars

\* one of three token workers has ended its loop on the first marker and
\* terminated; the two markers behind it are still in todo_queue for the
\* other two, one of which works on an item
IterationStopsAtMarkerWitness ==
    /\ conf.threads[1] = 3
    /\ queue["todo_queue"] = <<sentinel, sentinel>>
    /\ \E w \in Workers(1) : wpc[w] = "done"
    /\ \E w \in Workers(1) : wpc[w] = "body" /\ witem[w] = Index(1)

\* ---------------------------------------------------------------- C15
\* the pool whose queue stop_threads closes one time too many
OverClosed(p) ==
    /\ conf.closes[p] = conf.threads[p] + 1
    /\ \A o \in Pools \ {p} : conf.closes[o] = conf.threads[o]

\* every worker of p has terminated, one marker is left in the queue and
\* counted as pending, and main is in queue.join()
MarkerLeftOver(p) ==
    /\ \A w \in Workers(p) : Terminated(w)
    /\ queue[InQ(p)] = <<sentinel>>
    /\ unfinished[InQ(p)] = 1
    /\ mpc = <<"qjoin", p>>

\* C15: when the queue of a pool of K workers is closed K+1 times, then from
\* the (K+1)-th close() on the pending-count stays above zero, and once all K
\* workers have terminated a marker is in the queue that nobody pops;
\* queue.join() of stop_threads never returns, and eventually and for ever
\* all K workers are terminated with one marker left and main in join().
OverClosingBlocks ==
    /\ [](\A p \in Pools :
            /\ OverClosed(p) => ~Past(<<"qjoin", p>>)
            /\ hist.closed[InQ(p)] > conf.threads[p] =>
                  /\ unfinished[InQ(p)] > 0
                  /\ hist.popped[InQ(p)] < hist.closed[InQ(p)]
                  /\ (\A w \in Workers(p) : Terminated(w)) =>
                         Markers(queue[InQ(p)]) >= 1)
    /\ <>[](\A p \in Pools : OverClosed(p) => MarkerLeftOver(p))

\* token_queue was closed three times for two result workers, which have
\* both terminated after the one item of the run
OverClosingBlocksWitness ==
    /\ OverClosed(2)
    /\ conf.threads[2] = 2
    /\ hist.closed["token_queue"] = 3
    /\ Payloads("results_queue") = 1
    /\ MarkerLeftOver(2)

\* ---------------------------------------------------------------- C18
\* number of positions of buffer buf that hold item x
Occurrences(buf, x) == Count({k \in 1..Len(buf) : buf[k] = x})

\* workers of pool p that popped x and have not yet put func(x)
Processing(p, x) == {w \in Workers(p) : wpc[w] = "body" /\ witem[w] = x}

\* the places where the work item fed as index i is: in todo_queue, with a
\* token worker, as token_i in token_queue, with a result worker, as
\* result_i in results_queue, in results
Places(i) ==
    Occurrences(queue["todo_queue"], Index(i))
    + Count(Processing(1, Index(i)))
    + Occurrences(queue["token_queue"], Str("token", i))
    + Count(Processing(2, Str("token", i)))
    + Occurrences(queue["results_queue"], Str("result", i))
    + Occurrences(results, Str("result", i))

\* close() calls main has made on the input queue of pool p
MainCloses(p) ==
    IF mpc = <<"close", p>> THEN mi
    ELSE IF Past(<<"close", p>>) THEN conf.closes[p] ELSE 0

\* C18: every index main has fed is in exactly one place (todo_queue, a
\* token worker, token_queue as token_i, a result worker, results_queue as
\* result_i, or results), an index not yet fed is nowhere; a worker has put
\* exactly one output per payload item it popped and processed, and the
\* markers on a queue are those main put with close(): no worker puts one.
Conservation ==
    /\ \A i \in 0..(MaxLoad - 1) :
          Places(i) = (IF i < Payloads("todo_queue") THEN 1 ELSE 0)
    /\ \A p \in Pools :
          /\ Payloads(OutQ(p)) + Count({w \in Workers(p) : wpc[w] = "body"})
                = Popped(InQ(p)) - hist.popped[InQ(p)]
          /\ hist.closed[InQ(p)] = MainCloses(p)
    /\ hist.closed["results_queue"] = (IF Past(<<"rclose", 3>>) THEN 1 ELSE 0)

\* four items are under way: result_0 in results_queue, token_1 with the
\* result worker, 2 with the token worker, 3 in todo_queue
ConservationWitness ==
    /\ Payloads("todo_queue") = 4
    /\ queue["todo_queue"] = <<Index(3)>>
    /\ \E w \in Workers(1) : wpc[w] = "body" /\ witem[w] = Index(2)
    /\ queue["token_queue"] = <<>>
    /\ \E w \in Workers(2) : wpc[w] = "body" /\ witem[w] = Str("token", 1)
    /\ queue["results_queue"] = <<Str("result", 0)>>

\* ---------------------------------------------------------------- C19
\* C19: when list(results_queue) has ended and main has finished, the three
\* queues are empty with pending-count 0, every worker thread has
\* terminated, and the marker of results_queue was the last entry popped
\* from it, after all N results.
CleanFinalState ==
    /\ MainLeftLoop =>
          /\ queue["results_queue"] = <<>>
          /\ hist.popped["results_queue"] = 1
          /\ Len(results) = conf.N
          /\ Popped("results_queue") = conf.N + 1
    /\ Done =>
          /\ \A q \in Queues :
                queue[q] = <<>> /\ unfinished[q] = 0 /\ hist.ndone[q] = hist.nput[q]
          /\ \A p \in Pools : \A w \in Workers(p) : Terminated(w)
          /\ \A w \in AllWorkers : ~Alive(w)

\* main has finished a run of two items through two workers per stage
CleanFinalStateWitness ==
    /\ Done
    /\ conf.N = 2
    /\ conf.threads = <<2, 2>>
    /\ hist.ndone = [q \in Queues |-> IF q = "results_queue" THEN 3 ELSE 4]

\* ---------------------------------------------------------------- C20
\* the payload values that travel through queue q
PayloadsOf(q) ==
    {IF q = "todo_queue" THEN Index(i)
     ELSE IF q = "token_queue" THEN get_token(Index(i))
     ELSE get_result(get_token(Index(i))) : i \in 0..MaxLoad}

\* the marker differs from every payload; a consumer in its loop body holds
\* a payload of its queue, a consumer that ended its loop did so on the
\* marker of the queue it reads, and the loops ended plus the markers still
\* queued are the close() calls main made: nothing else ends a loop
MarkerEndsLoops ==
    /\ \A q \in Queues :
          /\ SentinelOf(q) \notin UNION {PayloadsOf(o) : o \in Queues}
          /\ \A k \in 1..Len(queue[q]) :
                queue[q][k] = SentinelOf(q) \/ queue[q][k] \in PayloadsOf(q)
    /\ \A k \in 1..Len(results) : results[k] \in PayloadsOf("results_queue")
    /\ \A p \in Pools :
          /\ \A w \in Workers(p) :
                /\ wpc[w] \in {"body", "task_done"} => witem[w] \in PayloadsOf(InQ(p))
                /\ wpc[w] = "stop" => witem[w] = SentinelOf(InQ(p))
          /\ Count({w \in Workers(p) : LeftLoop(w)})
                + Occurrences(queue[InQ(p)], SentinelOf(InQ(p))) = MainCloses(p)

\* C20 as stated: each queue has its own stop marker instance, distinct from
\* the markers of the other queues and from every payload; a consumer ends
\* its loop only on the marker of the queue it is reading, and no payload is
\* ever treated as a stop marker.
StopMarkerIdentityAsStated ==
    /\ \A q, o \in Queues : q # o => SentinelOf(q) # SentinelOf(o)
    /\ MarkerEndsLoops

\* C20 (amended): all queues share one stop marker instance, the class
\* attribute StoppingQueue.sentinel, which is distinct from every payload; a
\* consumer ends its loop only on that marker, popped from the queue it is
\* reading, and no payload is ever treated as a stop marker.
StopMarkerIdentity ==
    /\ \A q, o \in Queues : SentinelOf(q) = SentinelOf(o)
    /\ MarkerEndsLoops

\* a result worker ends its loop on the marker popped from token_queue, the
\* same object the token worker ended on, while result_0 waits in
\* results_queue
StopMarkerIdentityWitness ==
    /\ \E w \in Workers(2) : wpc[w] = "stop" /\ witem[w] = SentinelOf("todo_queue")
    /\ \A w \in Workers(1) : wpc[w] = "done"
    /\ queue["results_queue"] = <<Str("result", 0)>>

\* ---------------------------------------------------------------- C14
\* a worker of pool p died of an exception of the stage function
Failed(p) == \E w \in Workers(p) : wpc[w] = "raised"

\* C14: when the stage function raises on an item, the worker that called
\* it puts nothing and terminates without another round of its loop; from
\* then on stop_threads on the input queue of its pool never returns: while
\* main is in queue.join() the pending-count is above zero, main never gets
\* past it and never finishes, and eventually main waits there for ever.
FailureStallsShutdown ==
    /\ [][\A w \in AllWorkers :
             /\ (wpc[w] = "body" /\ witem[w] \in Failing /\ wpc'[w] # wpc[w]) =>
                    (wpc'[w] = "raised" /\ queue' = queue)
             /\ wpc[w] = "raised" => wpc'[w] = "raised"]_vars
    /\ [](\A p \in Pools :
            Failed(p) =>
               /\ ~Past(<<"qjoin", p>>)
               /\ mpc = <<"qjoin", p>> => unfinished[InQ(p)] > 0)
    /\ <>[](Failing # {} =>
               \E p \in Pools :
                   Failed(p) /\ mpc = <<"qjoin", p>> /\ unfinished[InQ(p)] > 0)

\* get_result raised on token_0 in one of two result workers, the other one
\* has processed token_1 and terminated on its marker; main is in
\* token_queue.join() with token_0 unacknowledged and one marker unpopped
FailureStallsShutdownWitness ==
    /\ Failing = {Str("token", 0)}
    /\ conf.threads[2] = 2
    /\ Failed(2)
    /\ \E w \in Workers(2) : wpc[w] = "done"
    /\ mpc = <<"qjoin", 2>>
    /\ queue["token_queue"] = <<sentinel>>
    /\ unfinished["token_queue"] = 2
    /\ queue["results_queue"] = <<Str("result", 1)>>

\* ---------------------------------------------------------------- C17
\* main has not finished and no thread can take a step
Stuck == ~Done /\ ~ENABLED Next

\* main is done with exactly the N results
CollectedAll ==
    /\ Len(results) = conf.N
    /\ \A i \in 0..(conf.N - 1) : Occurrences(results, Str("result", i)) = 1

\* C17 as stated: with every queue of bounded capacity C >= 1, main() still
\* terminates and collects exactly N results, for every N, C and numbers of
\* workers.
BackpressureAsStated ==
    /\ []~Stuck
    /\ [](Done => CollectedAll)
    /\ <>Done

\* C17 (amended): with every queue of bounded capacity C >= 1 no queue ever
\* holds more than C entries and main() never finishes with anything but
\* exactly the N results; it terminates when C >= N + 1.  When C <= N it
\* never terminates: the results stay in results_queue until both
\* stop_threads calls have returned, so the result workers (C < N) or
\* results_queue.close() (C = N) block for ever on the full queue.
BackpressureNeedsRoom ==
    /\ [](/\ \A q \in Queues : Len(queue[q]) <= MaxSize
          /\ Done => CollectedAll
          /\ MaxSize >= conf.N + 1 => ~Stuck
          /\ MaxSize <= conf.N => ~Done)
    /\ <>(MaxSize >= conf.N + 1 => Done)

\* capacity 2 and one item: main is blocked in the second close() of
\* todo_queue, which is full with the item and the first marker
BackpressureNeedsRoomWitness ==
    /\ MaxSize = 2
    /\ conf.N = 1
    /\ mpc = <<"close", 1>>
    /\ mi = 1
    /\ queue["todo_queue"] = <<Index(0), sentinel>>
    /\ ~ENABLED Main

\* ---------------------------------------------------------------- C16
\* at least two items and a stage with at least two workers
MultiWorker == conf.N >= 2 /\ \E p \in Pools : conf.threads[p] >= 2

\* C16: when a stage has two or more workers and N >= 2, main() has runs
\* that collect a permutation of result_0..result_{N-1} other than the
\* submission order (results == expected is false) and runs that collect the
\* submission order: every run under the "reorder" scheduler ends with the
\* former, every run under the "inorder" scheduler with the latter, and
\* under both schedulers main() finishes, so runs of both kinds exist.
OrderNotDetermined ==
    /\ [](Done =>
            /\ CollectedAll
            /\ (MultiWorker /\ Sched = "reorder") => results # expected
            /\ Sched = "inorder" => results = expected)
    /\ <>Done

\* two token workers, one result worker: results came out as result_1,
\* result_0
OrderNotDeterminedWitness ==
    /\ Done
    /\ conf.threads = <<2, 1>>
    /\ results = <<Str("result", 1), Str("result", 0)>>
    /\ expected = <<Str("result", 0), Str("result", 1)>>

====
